---- MODULE Spec2Model ----
(***************************************************************************)
(* The warehouse game (ww.py, wwgame.py): a Stage holding Actors on a      *)
(* bounded grid.  The state is the Stage's two lists, every Actor's        *)
(* fields, and the position of the main loop and of Stage.step's           *)
(* iteration over the live list.                                           *)
(***************************************************************************)
EXTENDS Integers, Sequences, FiniteSets, TLC

\* ---------------------------------------------------------------- bounds
\* Stage(20, 20, 24) in wwgame.py, scaled down.
Width == 4
Height == 2
\* Number of Actor objects a setup script may construct.
NumIds == 5
\* Number of random.choice direction samples one step of a FreeMonster may draw.
MaxSamples == 2
\* The longest monster list for which add_actor is still called from outside setup().
MaxMonsters == 2

\* ---------------------------------------------------------------- values
\* Python's None: as an Actor, as a key event, as a direction.
None == 0
NoEvent == "None"
NoDir == <<>>
\* Stage._player: set_player is setup()'s first call, so the player is the
\* first Actor constructed.
Player == 1
Ids == 1..NumIds
NoKind == "NoKind"
MonsterKinds == {"Monster", "FreeMonster", "BoxMonster", "Boss", "Ripper"}
Kinds == {"KeyboardPlayer", "Box", "StickyBox", "Wall"} \cup MonsterKinds
ArrowKeys == {"K_RIGHT", "K_DOWN", "K_UP", "K_LEFT"}
EventKeys == ArrowKeys \cup {"K_s"}
Samples == {<<dx, dy>> : dx \in {-1, 0, 1}, dy \in {-1, 0, 1}}

VARIABLES
    actors,      \* Stage._actors: the live list, in insertion order
    monsters,    \* Stage._monsters
    kind,        \* the class of each constructed Actor
    period,      \* Actor._delay
    pos,         \* (Actor._x, Actor._y)
    dir,         \* (Monster._dx, Monster._dy)
    cnt,         \* Actor._delay_count
    dead,        \* KeyboardPlayer.dead
    last_event,  \* KeyboardPlayer._last_event
    ret,         \* what the move call made by the last step returned
    todo,        \* the constructor calls setup() has still to make
    made,        \* how many Actor objects have been constructed
    pc,          \* where the program is: "setup", "events", "step", "draw"
    idx,         \* Stage.step's list iterator: how many items it has visited
    tick0,       \* the live list when the current Stage.step began
    stepped,     \* the Actors whose step the current Stage.step has invoked
    killed_by    \* history: the Actor whose step set KeyboardPlayer.dead, or None

vars == <<actors, monsters, kind, period, pos, dir, cnt, dead, last_event, ret,
          todo, made, pc, idx, tick0, stepped, killed_by>>

\* ------------------------------------------------------ the class hierarchy
Bases(k) ==
    CASE k = "KeyboardPlayer" -> {"Actor", "Player", "KeyboardPlayer"}
      [] k = "Box" -> {"Actor", "Box"}
      [] k = "StickyBox" -> {"Actor", "Box", "StickyBox"}
      [] k = "Wall" -> {"Actor", "Wall"}
      [] k = "Monster" -> {"Actor", "Monster"}
      [] k = "FreeMonster" -> {"Actor", "Monster", "FreeMonster"}
      [] k = "BoxMonster" -> {"Actor", "Monster", "FreeMonster", "BoxMonster"}
      [] k = "Boss" -> {"Actor", "Monster", "FreeMonster", "BoxMonster", "Boss"}
      [] k = "Ripper" -> {"Actor", "Monster", "FreeMonster", "Ripper"}
      [] OTHER -> {}

\* isinstance(a, cls); a may be None.
isinstance(a, cls) == a # None /\ cls \in Bases(kind[a])

\* ---------------------------------------------------------------- the world
\* What a step reads and writes, as one record, so that nested calls can be
\* composed.  keys: pygame.key.get_pressed(); rnd: the values random.choice
\* will return, in order; starved: a sample was needed and rnd was empty.
World(keys, rnd) ==
    [actors |-> actors, monsters |-> monsters, pos |-> pos, dir |-> dir,
     cnt |-> cnt, dead |-> dead, last_event |-> last_event, ret |-> "None",
     keys |-> keys, rnd |-> rnd, starved |-> FALSE]

\* The state as a world, with no input pending.
Now == World({}, <<>>)

\* The elements of a list, and its last element.
Range(s) == {s[i] : i \in 1..Len(s)}

Last(s) == s[Len(s)]

\* ---------------------------------------------------------------- Stage
is_in_bounds_x(x) == 0 <= x /\ x < Width

is_in_bounds_y(y) == 0 <= y /\ y < Height

is_in_bounds(x, y) == is_in_bounds_x(x) /\ is_in_bounds_y(y)

\* The first actor of the live list at (x, y), or None.
get_actor(w, x, y) ==
    LET S == {i \in 1..Len(w.actors) : w.pos[w.actors[i]] = <<x, y>>}
    IN  IF S = {} THEN None
        ELSE w.actors[CHOOSE i \in S : \A j \in S : i <= j]

\* list.remove(x): drops the first item equal to x.
ListRemove(s, x) ==
    LET S == {i \in 1..Len(s) : s[i] = x}
        k == CHOOSE i \in S : \A j \in S : i <= j
    IN  IF S = {} THEN s
        ELSE [i \in 1..(Len(s) - 1) |-> IF i < k THEN s[i] ELSE s[i + 1]]

add_actor(w, a) ==
    IF isinstance(a, "Monster")
    THEN [w EXCEPT !.monsters = Append(@, a), !.actors = Append(@, a)]
    ELSE [w EXCEPT !.actors = Append(@, a)]

remove_actor_keepmonster(w, a) == [w EXCEPT !.actors = ListRemove(@, a)]

remove_actor(w, a) ==
    IF isinstance(a, "Monster")
    THEN [w EXCEPT !.monsters = ListRemove(@, a), !.actors = ListRemove(@, a)]
    ELSE [w EXCEPT !.actors = ListRemove(@, a)]

clear(w) == [w EXCEPT !.actors = <<>>]

\* ---------------------------------------------------------------- Actor
Actor_move(w, a, dx, dy) ==
    [w EXCEPT !.pos[a] = <<@[1] + dx, @[2] + dy>>, !.ret = "True"]

\* delay(): the counter after the call; the call returns TRUE iff it is 0.
delay(w, a) == [w EXCEPT !.cnt[a] = (@ + 1) % period[a]]


\* ---------------------------------------------------------------- moves
RECURSIVE move(_, _, _, _, _)
RECURSIVE step(_, _)

\* Mutant: the player never asks the occupant of its target cell to move.
KeyboardPlayer_move_nopush(w, a, other, dx, dy) ==
    LET new_x == w.pos[a][1] + dx
        new_y == w.pos[a][2] + dy
        occ == get_actor(w, new_x, new_y)
    IN  IF is_in_bounds(new_x, new_y) /\ occ = None THEN Actor_move(w, a, dx, dy)
        ELSE IF is_in_bounds(new_x, new_y) /\ isinstance(occ, "Monster")
             THEN [w EXCEPT !.dead = TRUE, !.ret = "True"]
        ELSE [w EXCEPT !.ret = "False"]

\* Mutant: walking into a Monster is merely blocked.
KeyboardPlayer_move_nokill(w, a, other, dx, dy) ==
    LET new_x == w.pos[a][1] + dx
        new_y == w.pos[a][2] + dy
        occ == get_actor(w, new_x, new_y)
        w1 == IF occ # None /\ ~isinstance(occ, "Wall")
              THEN move(w, occ, a, dx, dy) ELSE w
    IN  IF is_in_bounds(new_x, new_y)
        THEN IF occ = None THEN Actor_move(w, a, dx, dy)
             ELSE IF occ # None /\ ~isinstance(occ, "Wall")
                     /\ get_actor(w1, new_x, new_y) = None
                  THEN Actor_move(w1, a, dx, dy)
             ELSE [w1 EXCEPT !.ret = "False"]
        ELSE [w EXCEPT !.ret = "False"]

\* Mutant: the player asks a Wall in its way to move, as it asks a Box.
KeyboardPlayer_move_pushwall(w, a, other, dx, dy) ==
    LET new_x == w.pos[a][1] + dx
        new_y == w.pos[a][2] + dy
        occ == get_actor(w, new_x, new_y)
        w1 == IF occ # None THEN move(w, occ, a, dx, dy) ELSE w
    IN  IF is_in_bounds(new_x, new_y)
        THEN IF occ = None THEN Actor_move(w, a, dx, dy)
             ELSE IF get_actor(w1, new_x, new_y) = None
                  THEN Actor_move(w1, a, dx, dy)
             ELSE IF isinstance(get_actor(w1, new_x, new_y), "Monster")
                  THEN [w1 EXCEPT !.dead = TRUE, !.ret = "True"]
             ELSE [w1 EXCEPT !.ret = "False"]
        ELSE [w EXCEPT !.ret = "False"]

\* Mutant: a move of the player that succeeds clears its dead flag.
KeyboardPlayer_move_revives(w, a, other, dx, dy) ==
    LET new_x == w.pos[a][1] + dx
        new_y == w.pos[a][2] + dy
        occ == get_actor(w, new_x, new_y)
        w1 == IF occ # None /\ ~isinstance(occ, "Wall")
              THEN move(w, occ, a, dx, dy) ELSE w
    IN  IF is_in_bounds(new_x, new_y)
        THEN IF occ = None THEN [Actor_move(w, a, dx, dy) EXCEPT !.dead = FALSE]
             ELSE IF occ # None /\ ~isinstance(occ, "Wall")
                     /\ get_actor(w1, new_x, new_y) = None
                  THEN [Actor_move(w1, a, dx, dy) EXCEPT !.dead = FALSE]
             ELSE IF isinstance(get_actor(w1, new_x, new_y), "Monster")
                  THEN [w1 EXCEPT !.dead = TRUE, !.ret = "True"]
             ELSE [w1 EXCEPT !.ret = "False"]
        ELSE [w EXCEPT !.ret = "False"]

\* KeyboardPlayer.move
KeyboardPlayer_move(w, a, other, dx, dy) ==
    LET new_x == w.pos[a][1] + dx
        new_y == w.pos[a][2] + dy
        occ == get_actor(w, new_x, new_y)
        \* after the second if: the occupant, if there was one to ask, was asked
        w1 == IF occ # None /\ ~isinstance(occ, "Wall")
              THEN move(w, occ, a, dx, dy) ELSE w
    IN  IF is_in_bounds(new_x, new_y)
        THEN IF occ = None THEN Actor_move(w, a, dx, dy)
             ELSE IF occ # None /\ ~isinstance(occ, "Wall")
                     /\ get_actor(w1, new_x, new_y) = None
                  THEN Actor_move(w1, a, dx, dy)
             ELSE IF isinstance(get_actor(w1, new_x, new_y), "Monster")
                  THEN [w1 EXCEPT !.dead = TRUE, !.ret = "True"]
             ELSE [w1 EXCEPT !.ret = "False"]
        ELSE [w EXCEPT !.ret = "False"]

\* Mutant: the box moves after asking the occupant, without looking again.
Box_move_norecheck(w, a, other, dx, dy) ==
    LET new_x == w.pos[a][1] + dx
        new_y == w.pos[a][2] + dy
        occ == get_actor(w, new_x, new_y)
    IN  IF is_in_bounds(new_x, new_y)
        THEN IF occ = None THEN Actor_move(w, a, dx, dy)
             ELSE IF ~isinstance(occ, "Wall")
                  THEN [Actor_move(move(w, occ, a, dx, dy), a, dx, dy) EXCEPT !.ret = "False"]
             ELSE [w EXCEPT !.ret = "False"]
        ELSE [w EXCEPT !.ret = "False"]

\* Box.move (StickyBox inherits it)
Box_move(w, a, other, dx, dy) ==
    LET new_x == w.pos[a][1] + dx
        new_y == w.pos[a][2] + dy
        occ == get_actor(w, new_x, new_y)
        w1 == move(w, occ, a, dx, dy)
    IN  IF is_in_bounds(new_x, new_y)
        THEN IF occ = None THEN Actor_move(w, a, dx, dy)
             ELSE IF ~isinstance(occ, "Wall")
                  THEN IF get_actor(w1, new_x, new_y) = None
                       THEN [Actor_move(w1, a, dx, dy) EXCEPT !.ret = "False"]
                       ELSE [w1 EXCEPT !.ret = "False"]
             ELSE [w EXCEPT !.ret = "False"]
        ELSE [w EXCEPT !.ret = "False"]

\* Mutant: on meeting the player the Monster kills it and keeps its heading.
Monster_move_noinvert(w, a, other, dx, dy) ==
    LET new_x == w.pos[a][1] + w.dir[a][1]
        new_y == w.pos[a][2] + w.dir[a][2]
        actor == get_actor(w, new_x, new_y)
        bx == ~is_in_bounds_x(new_x)
        by == ~is_in_bounds_y(new_y)
        w1 == [w EXCEPT !.dir[a] = <<IF bx THEN -@[1] ELSE @[1],
                                     IF by THEN -@[2] ELSE @[2]>>]
        rev == [w1 EXCEPT !.dir[a] = <<-@[1], -@[2]>>]
    IN  IF other # a THEN [w EXCEPT !.ret = "False"]
        ELSE IF actor # None /\ ~isinstance(actor, "KeyboardPlayer")
             THEN [rev EXCEPT !.ret = "True"]
        ELSE IF actor # None /\ isinstance(actor, "KeyboardPlayer")
             THEN [w1 EXCEPT !.dead = TRUE, !.ret = "True"]
        ELSE IF bx \/ by THEN [w1 EXCEPT !.ret = "False"]
        ELSE Actor_move(w1, a, dx, dy)

\* Mutant: the Monster moves for whoever asks.
Monster_move_pushable(w, a, other, dx, dy) ==
    LET new_x == w.pos[a][1] + w.dir[a][1]
        new_y == w.pos[a][2] + w.dir[a][2]
        actor == get_actor(w, new_x, new_y)
        bx == ~is_in_bounds_x(new_x)
        by == ~is_in_bounds_y(new_y)
        w1 == [w EXCEPT !.dir[a] = <<IF bx THEN -@[1] ELSE @[1],
                                     IF by THEN -@[2] ELSE @[2]>>]
        rev == [w1 EXCEPT !.dir[a] = <<-@[1], -@[2]>>]
    IN  IF actor # None /\ ~isinstance(actor, "KeyboardPlayer")
        THEN [rev EXCEPT !.ret = "True"]
        ELSE IF actor # None /\ isinstance(actor, "KeyboardPlayer")
             THEN [rev EXCEPT !.dead = TRUE, !.ret = "True"]
        ELSE IF bx \/ by THEN [w1 EXCEPT !.ret = "False"]
        ELSE Actor_move(w1, a, dx, dy)

\* Mutant: the second edge check is an elif of the first.
Monster_move_elif(w, a, other, dx, dy) ==
    LET new_x == w.pos[a][1] + w.dir[a][1]
        new_y == w.pos[a][2] + w.dir[a][2]
        actor == get_actor(w, new_x, new_y)
        bx == ~is_in_bounds_x(new_x)
        by == ~is_in_bounds_y(new_y)
        w1 == [w EXCEPT !.dir[a] = <<IF bx THEN -@[1] ELSE @[1],
                                     IF by /\ ~bx THEN -@[2] ELSE @[2]>>]
        rev == [w1 EXCEPT !.dir[a] = <<-@[1], -@[2]>>]
    IN  IF other # a THEN [w EXCEPT !.ret = "False"]
        ELSE IF actor # None /\ ~isinstance(actor, "KeyboardPlayer")
             THEN [rev EXCEPT !.ret = "True"]
        ELSE IF actor # None /\ isinstance(actor, "KeyboardPlayer")
             THEN [rev EXCEPT !.dead = TRUE, !.ret = "True"]
        ELSE IF bx \/ by THEN [w1 EXCEPT !.ret = "False"]
        ELSE Actor_move(w1, a, dx, dy)

\* Mutant: after an edge bounce the Monster moves on along its new heading.
Monster_move_slides(w, a, other, dx, dy) ==
    LET new_x == w.pos[a][1] + w.dir[a][1]
        new_y == w.pos[a][2] + w.dir[a][2]
        actor == get_actor(w, new_x, new_y)
        bx == ~is_in_bounds_x(new_x)
        by == ~is_in_bounds_y(new_y)
        w1 == [w EXCEPT !.dir[a] = <<IF bx THEN -@[1] ELSE @[1],
                                     IF by THEN -@[2] ELSE @[2]>>]
        rev == [w1 EXCEPT !.dir[a] = <<-@[1], -@[2]>>]
    IN  IF other # a THEN [w EXCEPT !.ret = "False"]
        ELSE IF actor # None /\ ~isinstance(actor, "KeyboardPlayer")
             THEN [rev EXCEPT !.ret = "True"]
        ELSE IF actor # None /\ isinstance(actor, "KeyboardPlayer")
             THEN [rev EXCEPT !.dead = TRUE, !.ret = "True"]
        ELSE IF bx /\ by THEN [w1 EXCEPT !.ret = "False"]
        ELSE Actor_move(w1, a, w1.dir[a][1], w1.dir[a][2])

\* Mutant: the Monster does not look at what is on its target cell, unless
\* it is the player.
Monster_move_stacks(w, a, other, dx, dy) ==
    LET new_x == w.pos[a][1] + w.dir[a][1]
        new_y == w.pos[a][2] + w.dir[a][2]
        actor == get_actor(w, new_x, new_y)
        bx == ~is_in_bounds_x(new_x)
        by == ~is_in_bounds_y(new_y)
        w1 == [w EXCEPT !.dir[a] = <<IF bx THEN -@[1] ELSE @[1],
                                     IF by THEN -@[2] ELSE @[2]>>]
        rev == [w1 EXCEPT !.dir[a] = <<-@[1], -@[2]>>]
    IN  IF other # a THEN [w EXCEPT !.ret = "False"]
        ELSE IF actor # None /\ isinstance(actor, "KeyboardPlayer")
             THEN [rev EXCEPT !.dead = TRUE, !.ret = "True"]
        ELSE IF bx \/ by THEN [w1 EXCEPT !.ret = "False"]
        ELSE Actor_move(w1, a, dx, dy)

\* Mutant: at an edge the Monster drops the component that ran off the
\* Stage instead of negating it.
Monster_move_flattens(w, a, other, dx, dy) ==
    LET new_x == w.pos[a][1] + w.dir[a][1]
        new_y == w.pos[a][2] + w.dir[a][2]
        actor == get_actor(w, new_x, new_y)
        bx == ~is_in_bounds_x(new_x)
        by == ~is_in_bounds_y(new_y)
        w1 == [w EXCEPT !.dir[a] = <<IF bx THEN 0 ELSE @[1],
                                     IF by THEN 0 ELSE @[2]>>]
        rev == [w1 EXCEPT !.dir[a] = <<-@[1], -@[2]>>]
    IN  IF other # a THEN [w EXCEPT !.ret = "False"]
        ELSE IF actor # None /\ ~isinstance(actor, "KeyboardPlayer")
             THEN [rev EXCEPT !.ret = "True"]
        ELSE IF actor # None /\ isinstance(actor, "KeyboardPlayer")
             THEN [rev EXCEPT !.dead = TRUE, !.ret = "True"]
        ELSE IF bx \/ by THEN [w1 EXCEPT !.ret = "False"]
        ELSE Actor_move(w1, a, dx, dy)

\* Monster.move
Monster_move(w, a, other, dx, dy) ==
    LET new_x == w.pos[a][1] + w.dir[a][1]
        new_y == w.pos[a][2] + w.dir[a][2]
        actor == get_actor(w, new_x, new_y)
        bx == ~is_in_bounds_x(new_x)
        by == ~is_in_bounds_y(new_y)
        \* after the two edge checks
        w1 == [w EXCEPT !.dir[a] = <<IF bx THEN -@[1] ELSE @[1],
                                     IF by THEN -@[2] ELSE @[2]>>]
        rev == [w1 EXCEPT !.dir[a] = <<-@[1], -@[2]>>]
    IN  IF other # a THEN [w EXCEPT !.ret = "False"]
        ELSE IF actor # None /\ ~isinstance(actor, "KeyboardPlayer")
             THEN [rev EXCEPT !.ret = "True"]
        ELSE IF actor # None /\ isinstance(actor, "KeyboardPlayer")
             THEN [rev EXCEPT !.dead = TRUE, !.ret = "True"]
        ELSE IF bx \/ by THEN [w1 EXCEPT !.ret = "False"]
        ELSE Actor_move(w1, a, dx, dy)

\* FreeMonster.move (BoxMonster and Boss inherit it); self.step() is the
\* step of the object's own class.
FreeMonster_move(w, a, other, dx, dy) ==
    LET new_x == w.pos[a][1] + dx
        new_y == w.pos[a][2] + dy
        actor == get_actor(w, new_x, new_y)
    IN  IF other # a THEN [w EXCEPT !.ret = "False"]
        ELSE IF ~is_in_bounds(new_x, new_y)
             THEN [step(w, a) EXCEPT !.ret = "True"]
        ELSE IF actor # None /\ ~isinstance(actor, "KeyboardPlayer")
             THEN [step(w, a) EXCEPT !.ret = "True"]
        ELSE IF actor # None /\ isinstance(actor, "KeyboardPlayer")
             THEN [w EXCEPT !.dead = TRUE, !.ret = "True"]
        ELSE Actor_move(w, a, dx, dy)

\* Ripper.move
Ripper_move(w, a, other, dx, dy) ==
    LET new_x == w.pos[a][1] + dx
        new_y == w.pos[a][2] + dy
        actor == get_actor(w, new_x, new_y)
    IN  IF other # a THEN [w EXCEPT !.ret = "False"]
        ELSE IF ~is_in_bounds(new_x, new_y)
             THEN [step(w, a) EXCEPT !.ret = "True"]
        ELSE IF actor # None /\ ~isinstance(actor, "KeyboardPlayer")
             THEN [step(w, a) EXCEPT !.ret = "True"]
        ELSE IF actor # None /\ isinstance(actor, "KeyboardPlayer")
             THEN [w EXCEPT !.dead = TRUE, !.ret = "True"]
        ELSE Actor_move(w, a, dx, dy)

\* a.move(other, dx, dy), dispatched on a's class.
move(w, a, other, dx, dy) ==
    CASE kind[a] = "KeyboardPlayer" -> KeyboardPlayer_move(w, a, other, dx, dy)
      [] kind[a] \in {"Box", "StickyBox"} -> Box_move(w, a, other, dx, dy)
      [] kind[a] = "Monster" -> Monster_move(w, a, other, dx, dy)
      [] kind[a] \in {"FreeMonster", "BoxMonster", "Boss"} ->
             FreeMonster_move(w, a, other, dx, dy)
      [] kind[a] = "Ripper" -> Ripper_move(w, a, other, dx, dy)
      [] OTHER -> Actor_move(w, a, dx, dy)

\* ------------------------------------------------------- Monster's checks
Moves8 == << <<1, 0>>, <<-1, 0>>, <<0, 1>>, <<0, -1>>,
             <<1, 1>>, <<-1, 1>>, <<1, -1>>, <<-1, -1>> >>

Moves4 == << <<1, 0>>, <<-1, 0>>, <<0, 1>>, <<0, -1>> >>

\* Mutant: only the four cardinal neighbours are looked at.
RECURSIVE is_dead_from_cardinal(_, _, _)
is_dead_from_cardinal(w, a, i) ==
    IF i > Len(Moves4) THEN TRUE
    ELSE LET x == w.pos[a][1] + Moves4[i][1]
             y == w.pos[a][2] + Moves4[i][2]
         IN  IF (get_actor(w, x, y) = None
                   \/ isinstance(get_actor(w, x, y), "KeyboardPlayer"))
                /\ is_in_bounds(x, y)
             THEN FALSE
             ELSE is_dead_from_cardinal(w, a, i + 1)

\* The for loop of Monster.is_dead from its i-th position on.
RECURSIVE is_dead_from(_, _, _)
is_dead_from(w, a, i) ==
    IF i > Len(Moves8) THEN TRUE
    ELSE LET x == w.pos[a][1] + Moves8[i][1]
             y == w.pos[a][2] + Moves8[i][2]
         IN  IF (get_actor(w, x, y) = None
                   \/ isinstance(get_actor(w, x, y), "KeyboardPlayer"))
                /\ is_in_bounds(x, y)
             THEN FALSE
             ELSE is_dead_from(w, a, i + 1)

is_dead(w, a) == is_dead_from(w, a, 1)

\* Mutant: the eight neighbours are looked at, as in is_dead.
RECURSIVE is_stuck_from_diagonal(_, _, _)
is_stuck_from_diagonal(w, a, i) ==
    IF i > Len(Moves8) THEN FALSE
    ELSE LET x == w.pos[a][1] + Moves8[i][1]
             y == w.pos[a][2] + Moves8[i][2]
         IN  IF isinstance(get_actor(w, x, y), "StickyBox")
                /\ ~isinstance(a, "Boss")
             THEN TRUE
             ELSE is_stuck_from_diagonal(w, a, i + 1)

\* The for loop of Monster.is_stuck from its i-th position on.
RECURSIVE is_stuck_from(_, _, _)
is_stuck_from(w, a, i) ==
    IF i > Len(Moves4) THEN FALSE
    ELSE LET x == w.pos[a][1] + Moves4[i][1]
             y == w.pos[a][2] + Moves4[i][2]
         IN  IF isinstance(get_actor(w, x, y), "StickyBox")
                /\ ~isinstance(a, "Boss")
             THEN TRUE
             ELSE is_stuck_from(w, a, i + 1)

is_stuck(w, a) == is_stuck_from(w, a, 1)

\* ---------------------------------------------------------------- steps
\* The direction KeyboardPlayer.step derives from _last_event and the pressed
\* keys; NoDir when it derives none.
Intent(ev, keys) ==
    LET d0 == CASE ev = "K_RIGHT" -> <<1, 0>>
                [] ev = "K_DOWN" -> <<0, 1>>
                [] ev = "K_UP" -> <<0, -1>>
                [] ev = "K_LEFT" -> <<-1, 0>>
                [] OTHER -> NoDir
        d1 == IF {"K_RIGHT", "K_DOWN"} \subseteq keys THEN <<1, 1>> ELSE d0
        d2 == IF {"K_UP", "K_RIGHT"} \subseteq keys THEN <<1, -1>> ELSE d1
        d3 == IF {"K_LEFT", "K_DOWN"} \subseteq keys THEN <<-1, 1>> ELSE d2
    IN  IF {"K_LEFT", "K_UP"} \subseteq keys THEN <<-1, -1>> ELSE d3

KeyboardPlayer_step(w, a) ==
    LET d == Intent(w.last_event, w.keys)
    IN  IF w.last_event # NoEvent
        THEN [(IF d # NoDir THEN KeyboardPlayer_move(w, a, a, d[1], d[2]) ELSE w)
                 EXCEPT !.last_event = NoEvent]
        ELSE w

\* Mutant: a dying Monster takes the StickyBoxes with it, as a Ripper does.
RECURSIVE Monster_step_sweep(_, _)
Monster_step_sweep(w, i) ==
    IF i > Len(w.actors) THEN w
    ELSE IF isinstance(w.actors[i], "StickyBox")
         THEN Monster_step_sweep(remove_actor(w, w.actors[i]), i + 1)
         ELSE Monster_step_sweep(w, i + 1)

Monster_step_shatters(w, a) ==
    IF ~is_dead(w, a) /\ ~is_stuck(w, a)
    THEN IF delay(w, a).cnt[a] # 0 THEN delay(w, a)
         ELSE Monster_move(delay(w, a), a, a, w.dir[a][1], w.dir[a][2])
    ELSE IF is_stuck(w, a) /\ ~is_dead(w, a) THEN w
    ELSE Monster_step_sweep(remove_actor(w, a), 1)

\* Mutant: the step asks is_stuck first and holds a stuck Monster whether or
\* not it is dead.
Monster_step_stuckfirst(w, a) ==
    IF is_stuck(w, a) THEN w
    ELSE IF ~is_dead(w, a)
         THEN IF delay(w, a).cnt[a] # 0 THEN delay(w, a)
              ELSE Monster_move(delay(w, a), a, a, w.dir[a][1], w.dir[a][2])
    ELSE remove_actor(w, a)

\* Mutant: the throttle is consulted before the stuck and dead checks.
Monster_step_heldcounts(w, a) ==
    IF delay(w, a).cnt[a] # 0 THEN delay(w, a)
    ELSE IF ~is_dead(w, a) /\ ~is_stuck(w, a)
         THEN Monster_move(delay(w, a), a, a, w.dir[a][1], w.dir[a][2])
    ELSE IF is_stuck(w, a) /\ ~is_dead(w, a) THEN delay(w, a)
    ELSE remove_actor(delay(w, a), a)

Monster_step(w, a) ==
    IF ~is_dead(w, a) /\ ~is_stuck(w, a)
    THEN IF delay(w, a).cnt[a] # 0 THEN delay(w, a)
         ELSE Monster_move(delay(w, a), a, a, w.dir[a][1], w.dir[a][2])
    ELSE IF is_stuck(w, a) /\ ~is_dead(w, a) THEN w
    ELSE remove_actor(w, a)

\* The random.choice pair a FreeMonster or Ripper step draws, then its move.
FreeMonster_step(w, a) ==
    IF ~is_dead(w, a) /\ ~is_stuck(w, a)
    THEN IF delay(w, a).cnt[a] # 0 THEN delay(w, a)
         ELSE IF w.rnd = <<>> THEN [delay(w, a) EXCEPT !.starved = TRUE]
         ELSE FreeMonster_move([delay(w, a) EXCEPT !.rnd = Tail(@)], a, a,
                               Head(w.rnd)[1], Head(w.rnd)[2])
    ELSE IF is_stuck(w, a) /\ ~is_dead(w, a) THEN w
    ELSE remove_actor(w, a)

\* The for loop of Ripper.step over Stage._actors, whose iterator has
\* visited i - 1 items; the list shrinks under the iterator.
RECURSIVE RipperSweep(_, _)
RipperSweep(w, i) ==
    IF i > Len(w.actors) THEN w
    ELSE IF isinstance(w.actors[i], "StickyBox")
         THEN RipperSweep(remove_actor(w, w.actors[i]), i + 1)
         ELSE RipperSweep(w, i + 1)

Ripper_step(w, a) ==
    IF ~is_dead(w, a) /\ ~is_stuck(w, a)
    THEN IF delay(w, a).cnt[a] # 0 THEN delay(w, a)
         ELSE IF w.rnd = <<>> THEN [delay(w, a) EXCEPT !.starved = TRUE]
         ELSE Ripper_move([delay(w, a) EXCEPT !.rnd = Tail(@)], a, a,
                          Head(w.rnd)[1], Head(w.rnd)[2])
    ELSE IF is_stuck(w, a) /\ ~is_dead(w, a) THEN w
    ELSE RipperSweep(remove_actor(w, a), 1)

\* a.step(), dispatched on a's class; Box, StickyBox and Wall inherit
\* Actor.step, which does nothing.
step(w, a) ==
    CASE kind[a] = "KeyboardPlayer" -> KeyboardPlayer_step(w, a)
      [] kind[a] = "Monster" -> Monster_step(w, a)
      [] kind[a] \in {"FreeMonster", "BoxMonster", "Boss"} -> FreeMonster_step(w, a)
      [] kind[a] = "Ripper" -> Ripper_step(w, a)
      [] OTHER -> w


\* ---------------------------------------------------------------- setup()
\* One constructor call of setup(): the class, the delay and the position it
\* passes, and whether the call is guarded by "if ww.get_actor(x, y) is None".
Spawn(k, d, x, y, g) == [kind |-> k, period |-> d, x |-> x, y |-> y, guarded |-> g]

ThePlayer == Spawn("KeyboardPlayer", 5, 0, 0, FALSE)

Cells == {<<x, y>> : x \in 0..(Width - 1), y \in 0..(Height - 1)}

\* The outcomes of setup()'s random draws that the model starts from: which
\* Actors it constructs, in which order, and where.
\* Blocks in a row in front of the player, and what lies past them.
PushLevels ==
    { <<ThePlayer, Spawn("Box", 5, 1, 0, TRUE), Spawn("StickyBox", 5, 2, 0, TRUE)>> \o rest :
        rest \in { << Spawn("Monster", 2, Width - 1, 0, TRUE) >>,
                   << Spawn("Wall", 5, Width - 1, 0, TRUE),
                      Spawn("Monster", 2, Width - 1, Height - 1, TRUE) >>,
                   << Spawn("Box", 5, 1, 1, TRUE),
                      Spawn("Monster", 2, Width - 1, Height - 1, TRUE) >> } }

\* A patrolling Monster, as the three setup() always adds.
PatrolLevels ==
    { <<ThePlayer, Spawn("Monster", 2, c[1], c[2], FALSE), x>> :
        c \in {<<0, 1>>, <<Width - 1, Height - 2>>, <<1, Height>>,
               <<Width - 1, Height - 1>>},
        x \in { Spawn("Wall", 5, 2, 1, TRUE), Spawn("Box", 5, 1, 1, TRUE),
                Spawn("StickyBox", 5, 2, 0, TRUE) } }

\* The random walkers.
FreeLevels ==
    { <<ThePlayer, Spawn(k[1], k[2], Width - 1, Height - 1, TRUE), x>> :
        k \in {<<"FreeMonster", 2>>, <<"BoxMonster", 2>>, <<"Boss", 1>>, <<"Ripper", 2>>},
        x \in { Spawn("Box", 5, 1, 1, TRUE), Spawn("StickyBox", 5, 1, 1, TRUE) } }

\* A Monster in the far corner with every neighbouring cell taken, or all but
\* one, which the player can fill.
CornerLevels ==
    { <<ThePlayer, Spawn(k, 2, Width - 1, Height - 1, TRUE)>> \o rest :
        k \in {"Monster", "FreeMonster", "Ripper"},
        rest \in { << Spawn("StickyBox", 5, Width - 2, Height - 1, TRUE),
                      Spawn("StickyBox", 5, Width - 1, Height - 2, TRUE),
                      Spawn("Wall", 5, Width - 2, Height - 2, TRUE) >>,
                   << Spawn("StickyBox", 5, Width - 2, Height - 1, TRUE),
                      Spawn("Wall", 5, Width - 2, Height - 2, TRUE),
                      Spawn("StickyBox", 5, Width - 1, Height - 2, TRUE) >>,
                   << Spawn("Monster", 2, Width - 2, Height - 2, TRUE),
                      Spawn("Wall", 5, Width - 2, Height - 1, TRUE),
                      Spawn("Wall", 5, Width - 1, Height - 2, TRUE) >>,
                   << Spawn("Wall", 5, Width - 2, Height - 2, TRUE),
                      Spawn("Wall", 5, Width - 1, Height - 2, TRUE),
                      Spawn("Box", 5, 1, Height - 1, TRUE) >> } }

Levels == PushLevels \cup PatrolLevels \cup FreeLevels \cup CornerLevels

\* Stage.__init__: an empty Stage; no Actor has been constructed.
Stage_init ==
    /\ actors = <<>>
    /\ monsters = <<>>
    /\ kind = [a \in Ids |-> NoKind]
    /\ period = [a \in Ids |-> 1]
    /\ pos = [a \in Ids |-> <<0, 0>>]
    /\ dir = [a \in Ids |-> <<0, 0>>]
    /\ cnt = [a \in Ids |-> 0]
    /\ dead = FALSE
    /\ last_event = NoEvent
    /\ ret = "None"
    /\ made = 0
    /\ pc = "setup"
    /\ idx = 0
    /\ tick0 = <<>>
    /\ stepped = <<>>
    /\ killed_by = None

Init == Stage_init /\ todo \in Levels

\* The constructor of the next Actor of setup(): Actor.__init__, and
\* Monster.__init__ for the Monster classes.
Construct(s) ==
    /\ made' = made + 1
    /\ kind' = [kind EXCEPT ![made + 1] = s.kind]
    /\ period' = [period EXCEPT ![made + 1] = s.period]
    /\ pos' = [pos EXCEPT ![made + 1] = <<s.x, s.y>>]
    /\ cnt' = [cnt EXCEPT ![made + 1] = 0]
    /\ dir' = [dir EXCEPT ![made + 1] =
                  IF s.kind \in MonsterKinds THEN <<1, 1>> ELSE <<0, 0>>]

\* Stage.add_actor on the Actor just constructed.
Added(k) ==
    /\ actors' = Append(actors, made + 1)
    /\ monsters' = IF k \in MonsterKinds THEN Append(monsters, made + 1) ELSE monsters

\* When setup() returns, start_game() enters main().
SetupPc == pc' = IF Len(todo) = 1 THEN "events" ELSE "setup"

\* ww.set_player(KeyboardPlayer(...)): the first call of setup().
set_player ==
    /\ pc = "setup" /\ todo # <<>> /\ made = 0
    /\ Head(todo).kind = "KeyboardPlayer"
    /\ Construct(Head(todo))
    /\ Added(Head(todo).kind)
    /\ todo' = Tail(todo)
    /\ SetupPc
    /\ UNCHANGED <<dead, last_event, ret, idx, tick0, stepped, killed_by>>

\* One later call of setup(): ww.add_actor(Cls(...)), skipped when the call
\* is guarded and the cell is taken.
setup_add ==
    /\ pc = "setup" /\ todo # <<>> /\ made > 0 /\ made < NumIds
    /\ IF Head(todo).guarded
          /\ get_actor(World({}, <<>>), Head(todo).x, Head(todo).y) # None
       THEN UNCHANGED <<actors, monsters, kind, period, pos, dir, cnt, made>>
       ELSE Construct(Head(todo)) /\ Added(Head(todo).kind)
    /\ todo' = Tail(todo)
    /\ SetupPc
    /\ UNCHANGED <<dead, last_event, ret, idx, tick0, stepped, killed_by>>

\* ---------------------------------------------------------------- main()
\* Stage.player_event(event.key), for a KEYDOWN event of the poll.
player_event ==
    /\ pc = "events"
    /\ last_event = NoEvent
    /\ \E k \in EventKeys : last_event' = k
    /\ UNCHANGED <<actors, monsters, kind, period, pos, dir, cnt, dead, ret,
                   todo, made, pc, idx, tick0, stepped, killed_by>>

\* The inputs a step of actor a can read.
KeysFor(a) ==
    IF kind[a] = "KeyboardPlayer" /\ last_event # NoEvent THEN SUBSET ArrowKeys ELSE {{}}

\* The worlds a.step() can end in when random.choice returns the samples rnd
\* and then any further ones: a sample is drawn only when the step asks for it.
RECURSIVE Runs(_, _, _)
Runs(a, keys, rnd) ==
    LET w == step(World(keys, rnd), a)
    IN  IF ~w.starved THEN {w}
        ELSE IF Len(rnd) >= MaxSamples THEN {}
        ELSE UNION {Runs(a, keys, Append(rnd, s)) : s \in Samples}

Outcomes(a) == UNION {Runs(a, keys, <<>>) : keys \in KeysFor(a)}

\* One iteration of the for loop of Stage.step: the list iterator has visited
\* idx items and yields the next, whose step runs to completion; the loop
\* ends when the iterator is at or past the end of the list.
Stage_step ==
    /\ pc \in {"events", "step"}
    /\ idx < Len(actors)
    /\ \E w \in Outcomes(actors[idx + 1]) :
          /\ actors' = w.actors
          /\ monsters' = w.monsters
          /\ pos' = w.pos
          /\ dir' = w.dir
          /\ cnt' = w.cnt
          /\ dead' = w.dead
          /\ last_event' = w.last_event
          /\ ret' = w.ret
          /\ pc' = IF idx + 1 < Len(w.actors) THEN "step" ELSE "draw"
          /\ killed_by' = IF w.dead /\ ~dead THEN actors[idx + 1] ELSE killed_by
    /\ idx' = idx + 1
    /\ tick0' = IF pc = "events" THEN actors ELSE tick0
    /\ stepped' = IF pc = "events" THEN <<actors[idx + 1]>>
                  ELSE Append(stepped, actors[idx + 1])
    /\ UNCHANGED <<kind, period, todo, made>>

\* Stage.draw: what it does to the Stage's state; _player is the first Actor
\* constructed.
draw ==
    /\ pc = "draw"
    /\ actors' = IF dead \/ Len(monsters) = 0 THEN <<Player>> ELSE actors
    /\ pc' = "events"
    /\ idx' = 0
    /\ tick0' = <<>>
    /\ stepped' = <<>>
    /\ ret' = "None"
    /\ UNCHANGED <<monsters, kind, period, pos, dir, cnt, dead, last_event,
                   todo, made, killed_by>>

Next == set_player \/ setup_add \/ player_event \/ Stage_step \/ draw

Spec == Init /\ [][Next]_vars

\* ------------------------------------------------- the Stage's own methods
\* The Stage as a caller of its public methods drives it: setup(), then any
\* sequence of step(), clear(), remove_actor() and add_actor(), with no key
\* pressed.
StageLevels ==
    { <<ThePlayer, Spawn(k, 2, Width - 1, Height - 1, TRUE),
        Spawn("Wall", 5, Width - 2, Height - 2, TRUE),
        Spawn("Box", 5, 1, Height - 1, TRUE)>> : k \in {"Monster", "Ripper"} }

InitStage == Stage_init /\ todo \in StageLevels

\* Stage.step on an empty live list: the for loop has nothing to yield.
Stage_step_none ==
    /\ pc = "events"
    /\ actors = <<>>
    /\ pc' = "draw"
    /\ UNCHANGED <<actors, monsters, kind, period, pos, dir, cnt, dead,
                   last_event, ret, todo, made, idx, tick0, stepped, killed_by>>

\* Stage.step returns to its caller.
step_return ==
    /\ pc = "draw"
    /\ pc' = "events"
    /\ idx' = 0
    /\ tick0' = <<>>
    /\ stepped' = <<>>
    /\ ret' = "None"
    /\ UNCHANGED <<actors, monsters, kind, period, pos, dir, cnt, dead,
                   last_event, todo, made, killed_by>>

\* Stage.clear(), called between two ticks.
stage_clear ==
    /\ pc = "events"
    /\ actors' = clear(Now).actors
    /\ monsters' = clear(Now).monsters
    /\ UNCHANGED <<kind, period, pos, dir, cnt, dead, last_event, ret, todo,
                   made, pc, idx, tick0, stepped, killed_by>>

\* Stage.remove_actor(a) for an Actor on the Stage, called between two ticks.
stage_remove_actor ==
    /\ pc = "events"
    /\ \E a \in Range(actors) :
          /\ a \in Range(monsters) \/ ~isinstance(a, "Monster")
          /\ actors' = remove_actor(Now, a).actors
          /\ monsters' = remove_actor(Now, a).monsters
    /\ UNCHANGED <<kind, period, pos, dir, cnt, dead, last_event, ret, todo,
                   made, pc, idx, tick0, stepped, killed_by>>

\* Stage.add_actor(a) for an Actor that is not on the Stage and whose cell is
\* free, called between two ticks.
stage_add_actor ==
    /\ pc = "events"
    /\ Len(monsters) < MaxMonsters
    /\ \E a \in (1..made) \ Range(actors) :
          /\ get_actor(Now, pos[a][1], pos[a][2]) = None
          /\ actors' = add_actor(Now, a).actors
          /\ monsters' = add_actor(Now, a).monsters
    /\ UNCHANGED <<kind, period, pos, dir, cnt, dead, last_event, ret, todo,
                   made, pc, idx, tick0, stepped, killed_by>>

NextStage ==
    \/ set_player \/ setup_add \/ Stage_step \/ Stage_step_none \/ step_return
    \/ stage_clear \/ stage_remove_actor \/ stage_add_actor

SpecStage == InitStage /\ [][NextStage]_vars

\* ------------------------------------------------- the main loop, running
\* start_game(): setup() runs to its end, and main()'s while loop then calls
\* ww.step() and ww.draw() in every pass, whether or not a key event is
\* waiting.
\* The for loop of Stage.step moves on to its next item: what every
\* Stage_step does to the iterator, and no other action does.
Iterates ==
    /\ pc \in {"events", "step"}
    /\ idx < Len(actors)
    /\ idx' = idx + 1

\* The step of the item the iterator yields returns.
StepReturns ==
    (pc \in {"events", "step"} /\ idx < Len(actors)) => Outcomes(actors[idx + 1]) # {}

FairSpec ==
    /\ Init
    /\ [][Next]_vars
    /\ WF_vars(set_player)
    /\ WF_vars(setup_add)
    /\ WF_idx(Iterates)
    /\ WF_vars(draw)


\* ================================================================ claims
\* The cell k steps from p in direction d.
Ahead(p, d, k) == <<p[1] + k * d[1], p[2] + k * d[2]>>

\* The eight directions a move request can have.
Dirs8 == Samples \ {<<0, 0>>}

\* ---------------------------------------------------------------- C1
\* C1: no two entities of the live collection are ever on the same cell.
C1_SingleOccupancy ==
    \A i, j \in 1..Len(actors) : i # j => pos[actors[i]] # pos[actors[j]]

\* A tick in which the player has just pushed a block: the player is on the
\* cell the block left.
C1_Witness ==
    /\ pc = "step" /\ stepped = <<Player>> /\ ret = "True"
    /\ \E a \in Range(actors) :
          /\ isinstance(a, "Box")
          /\ pos[a] # <<1, 0>> /\ pos[a] # <<2, 0>> /\ pos[a] # <<1, 1>>
    /\ \E m \in Range(actors) : isinstance(m, "Monster") /\ cnt[m] = 1

\* ---------------------------------------------------------------- C2
\* The number of consecutive cells from (x, y) on, in direction (dx, dy),
\* that hold a Box or StickyBox.
RECURSIVE ChainLen(_, _, _, _, _)
ChainLen(w, x, y, dx, dy) ==
    IF is_in_bounds(x, y) /\ isinstance(get_actor(w, x, y), "Box")
    THEN 1 + ChainLen(w, x + dx, y + dy, dx, dy)
    ELSE 0

\* C2: when the N >= 1 cells ahead of the Agent hold blocks, a move request
\* shifts the Agent and all N blocks by (dx, dy) if the cell past the chain is
\* in bounds and empty; otherwise no position changes and the move returns
\* False.
C2_PushChain ==
    Player \in Range(actors) =>
    \A d \in Dirs8 :
        LET p == pos[Player]
            n == ChainLen(Now, p[1] + d[1], p[2] + d[2], d[1], d[2])
            far == Ahead(p, d, n + 1)
            free == is_in_bounds(far[1], far[2]) /\ get_actor(Now, far[1], far[2]) = None
            chain == {Player} \cup
                     {get_actor(Now, Ahead(p, d, k)[1], Ahead(p, d, k)[2]) : k \in 1..n}
            w2 == KeyboardPlayer_move(Now, Player, Player, d[1], d[2])
        IN  n >= 1 =>
            IF free
            THEN \A a \in chain : w2.pos[a] = Ahead(pos[a], d, 1)
            ELSE w2.pos = pos /\ w2.ret = "False"

\* The player has just pushed the row Box, StickyBox one cell to the right.
C2_Witness ==
    /\ pc = "step" /\ stepped = <<Player>> /\ ret = "True"
    /\ made = 5 /\ kind[2] = "Box" /\ kind[3] = "StickyBox" /\ kind[4] = "Box"
    /\ pos[Player] = <<1, 0>> /\ pos[2] = <<2, 0>> /\ pos[3] = <<3, 0>>
    /\ pos[4] = <<1, 1>>

\* ---------------------------------------------------------------- C3
\* C3: a move request of the Agent whose target cell is in bounds and holds
\* a Monster sets dead, and changes no position and no travel direction.
C3_AgentIntoHostile ==
    Player \in Range(actors) =>
    \A d \in Dirs8 :
        LET t == Ahead(pos[Player], d, 1)
            w2 == KeyboardPlayer_move(Now, Player, Player, d[1], d[2])
        IN  (is_in_bounds(t[1], t[2]) /\ isinstance(get_actor(Now, t[1], t[2]), "Monster"))
            => (w2.dead /\ w2.pos = pos /\ w2.dir = dir)

\* The player's own step has just killed it.
C3_Witness ==
    /\ pc = "step" /\ stepped = <<Player>> /\ dead /\ killed_by = Player
    /\ ret = "True"
    /\ \E m \in Range(actors) : isinstance(m, "Monster")


\* ---------------------------------------------------------------- C4
\* A step call of hostile a in world w reaches its move attempt.
Activated(w, a) ==
    ~is_dead(w, a) /\ ~is_stuck(w, a) /\ (w.cnt[a] + 1) % period[a] = 0

\* C4: when an activated hostile's own move targets the Agent's cell, the
\* Agent's dead flag is set and no position changes; a patrolling Monster
\* also inverts both components of its direction.
C4_HostileIntoAgent ==
    \A a \in Range(actors) :
        (isinstance(a, "Monster") /\ Activated(Now, a)) =>
        \A s \in Samples :
            LET t == Ahead(pos[a], IF kind[a] = "Monster" THEN dir[a] ELSE s, 1)
                w2 == step(World({}, <<s>>), a)
            IN  isinstance(get_actor(Now, t[1], t[2]), "KeyboardPlayer") =>
                /\ w2.dead
                /\ w2.pos = pos
                /\ w2.actors = actors
                /\ kind[a] = "Monster" => w2.dir[a] = <<-dir[a][1], -dir[a][2]>>

\* The step of a patrolling Monster has just killed the player.
C4_Witness ==
    /\ pc \in {"step", "draw"} /\ stepped # <<>> /\ dead
    /\ killed_by = Last(stepped) /\ kind[killed_by] = "Monster"
    /\ ret = "True"

\* ---------------------------------------------------------------- C5
\* Every in-bounds neighbour of a, of the eight, holds an entity that is not
\* the Agent.
Enclosed(w, a) ==
    \A d \in Dirs8 :
        LET c == Ahead(w.pos[a], d, 1)
        IN  is_in_bounds(c[1], c[2]) =>
            /\ get_actor(w, c[1], c[2]) # None
            /\ ~isinstance(get_actor(w, c[1], c[2]), "KeyboardPlayer")

\* The world with cell c emptied, and with the Agent put on the emptied cell.
Emptied(w, c) ==
    IF get_actor(w, c[1], c[2]) = None THEN w
    ELSE remove_actor(w, get_actor(w, c[1], c[2]))

AgentOn(w, c) == [Emptied(w, c) EXCEPT !.pos[Player] = c]

\* C5: is_dead() of a hostile is true exactly when every in-bounds neighbour
\* of the eight holds a non-Agent entity; emptying any one in-bounds
\* neighbour, or putting the Agent there, makes it false.
C5_IsDead ==
    \A a \in 1..made :
        kind[a] \in MonsterKinds =>
        /\ is_dead(Now, a) <=> Enclosed(Now, a)
        /\ \A d \in Dirs8 :
              LET c == Ahead(pos[a], d, 1)
              IN  is_in_bounds(c[1], c[2]) =>
                  /\ ~is_dead(Emptied(Now, c), a)
                  /\ Player \in Range(Emptied(Now, c).actors)
                        => ~is_dead(AgentOn(Now, c), a)

\* A hostile that had stepped alive before has just been found dead by its
\* step and removed.
C5_Witness ==
    /\ pc \in {"step", "draw"} /\ stepped # <<>>
    /\ isinstance(Last(stepped), "Monster")
    /\ Last(stepped) \notin Range(actors)
    /\ cnt[Last(stepped)] = 1


\* ---------------------------------------------------------------- C6
\* The last step call of Stage.step was on a, and it removed a.
DiedInStep(a) ==
    /\ pc \in {"step", "draw"} /\ stepped # <<>>
    /\ Last(stepped) = a
    /\ a \notin Range(actors)

\* C6: once the step in which a Ripper dies has completed, the live
\* collection holds no StickyBox.
C6_RipperDeathRemovesEverySticky ==
    \A a \in 1..made :
        (kind[a] = "Ripper" /\ DiedInStep(a)) =>
        \A b \in Range(actors) : ~isinstance(b, "StickyBox")

\* ---------------------------------------------------------------- C7
\* How often a occurs in the sequence s.
Count(s, a) == Cardinality({i \in 1..Len(s) : s[i] = a})

\* C7: when the for loop of Stage.step has ended, every entity that was in
\* the live collection when it began and is still there has had its step
\* invoked exactly once, and the invocations came in insertion order.
C7_EveryActorSteppedOnce ==
    pc = "draw" =>
    /\ \A a \in Range(tick0) : a \in Range(actors) => Count(stepped, a) = 1
    /\ \A i, j \in 1..Len(stepped) :
          i < j => \E k, l \in 1..Len(tick0) :
                      k < l /\ tick0[k] = stepped[i] /\ tick0[l] = stepped[j]

\* ---------------------------------------------------------------- C8
\* C8: the monster list holds exactly the Monster-derived entities of the
\* live list, each once and in the same order; in particular it is empty
\* when the live list has been cleared.
C8_HostileSubsetConsistent ==
    /\ monsters = SelectSeq(actors, LAMBDA a : isinstance(a, "Monster"))
    /\ \A a \in Range(monsters) : Count(monsters, a) = 1
    /\ actors = <<>> => monsters = <<>>

\* ---------------------------------------------------------------- C9
\* Stage.victory().
victory == Len(monsters) = 0

\* Hostile a is in play, ticks run, and its death condition holds.
DeathHolds(a) ==
    /\ todo = <<>>
    /\ a \in Range(monsters)
    /\ is_dead(Now, a)

\* Hostile a was constructed and is in neither list.
Gone(a) ==
    /\ a \in 1..made /\ isinstance(a, "Monster")
    /\ a \notin Range(actors)
    /\ a \notin Range(monsters)

\* C9: victory holds while no hostile has been added and fails while one is
\* on the board; a hostile whose death condition holds and keeps holding
\* while ticks run is eventually in neither list, and victory holds again
\* when it was the only one; a hostile that is gone stays gone and its step
\* is not invoked again.
C9_VictoryRoundTrip ==
    /\ []((\A a \in 1..made : ~isinstance(a, "Monster")) => victory)
    /\ []((\E a \in Range(actors) : isinstance(a, "Monster")) => ~victory)
    /\ \A a \in Ids : DeathHolds(a) ~> (Gone(a) \/ ~DeathHolds(a))
    /\ \A a \in Ids : (DeathHolds(a) /\ Range(monsters) = {a})
                          ~> (victory \/ ~DeathHolds(a))
    /\ [][ \A a \in Ids :
              Gone(a) => /\ a \notin Range(actors') /\ a \notin Range(monsters')
                         /\ ~(stepped' # stepped /\ stepped' # <<>>
                              /\ Last(stepped') = a) ]_vars

\* The only hostile of the board was enclosed by a push of the player, is
\* gone, and draw has shown the victory.
C9_Witness ==
    /\ pc = "events" /\ ~dead /\ victory
    /\ actors = <<Player>>
    /\ \E a \in 1..made : Gone(a)
    /\ \A a \in 1..made : isinstance(a, "Monster") => Gone(a)
    /\ \E b \in 1..made : kind[b] = "Box" /\ pos[b] = <<Width - 2, Height - 1>>

\* ---------------------------------------------------------------- C10
\* C10: a step call on a hostile in which its throttle counter does not wrap
\* to zero neither removes the hostile from the board nor moves it.
C10_ThrottleGatesStateMachine ==
    [][ \A a \in Range(actors) :
           ( /\ pc \in {"events", "step"} /\ idx < Len(actors)
             /\ actors[idx + 1] = a /\ idx' = idx + 1
             /\ isinstance(a, "Monster")
             /\ ~(cnt[a] + 1 = period[a] /\ cnt'[a] = 0) )
           => (a \in Range(actors') /\ pos'[a] = pos[a]) ]_vars

\* ---------------------------------------------------------------- C11
\* The step of a that drew the sample s re-invoked a.step(), and that nested
\* invocation starts in the state the outer one started in and draws again.
Reenters(a, s) ==
    LET w == step(World({}, <<s>>), a)
    IN  /\ w.starved
        /\ w.actors = actors /\ w.monsters = monsters /\ w.pos = pos
        /\ w.dir = dir /\ w.cnt = cnt /\ w.dead = dead

\* C11: every tick terminates: no value random.choice can return makes the
\* step of the entity the iterator yields re-invoke itself in the state it
\* started in, from where the same draw would repeat without end.
C11_TickTerminates ==
    (pc \in {"events", "step"} /\ idx < Len(actors)) =>
    \A s \in Samples : ~Reenters(actors[idx + 1], s)

\* ---------------------------------------------------------------- C12
\* C12: a move request made to a hostile by anyone but the hostile itself
\* returns False and changes nothing: not the hostile's position, direction
\* or throttle counter, and no other entity's position.
C12_HostileNotPushed ==
    \A a \in Range(actors) :
        isinstance(a, "Monster") =>
        \A other \in (Range(actors) \cup {None}) \ {a} :
            \A d \in Samples :
                LET w2 == move(Now, a, other, d[1], d[2])
                IN  /\ w2.ret = "False"
                    /\ w2.pos = pos /\ w2.dir = dir /\ w2.cnt = cnt
                    /\ w2.actors = actors /\ w2.dead = dead

\* The player walked into a wandering hostile: its request to the hostile to
\* move on was turned down, the hostile is where it was, the player is dead.
C12_Witness ==
    /\ pc \in {"step", "draw"} /\ stepped # <<>> /\ Last(stepped) = Player
    /\ dead /\ killed_by = Player
    /\ \E m \in Range(actors) :
          /\ kind[m] \in {"FreeMonster", "BoxMonster", "Boss", "Ripper"}
          /\ \E d \in Dirs8 : pos[m] = Ahead(pos[Player], d, 1)

\* ---------------------------------------------------------------- C13
\* A Wall on the Stage stands on cell c.
WallAt(c) == \E a \in Range(actors) : isinstance(a, "Wall") /\ pos[a] = c

\* C13: a Wall never relocates: no step changes the position a Wall was
\* constructed with, no entity moves into a cell that holds a Wall, and no
\* live entity shares a Wall's cell.
C13_WallNeverRelocates ==
    /\ [](\A a, b \in Range(actors) :
             (isinstance(a, "Wall") /\ b # a) => pos[b] # pos[a])
    /\ [][ \A a \in Ids :
              /\ kind[a] = "Wall" => pos'[a] = pos[a]
              /\ (kind[a] # NoKind /\ pos'[a] # pos[a]) => ~WallAt(pos'[a]) ]_vars

\* A patrolling Monster has just turned round in front of a Wall: the Wall
\* is on the cell the Monster was heading for.
C13_Witness ==
    /\ pc \in {"step", "draw"} /\ stepped # <<>>
    /\ kind[Last(stepped)] = "Monster" /\ Last(stepped) \in Range(actors)
    /\ ret = "True" /\ ~dead /\ cnt[Last(stepped)] = 0
    /\ WallAt(Ahead(pos[Last(stepped)], dir[Last(stepped)], -1))

\* ---------------------------------------------------------------- C14
\* No cell next to a's holds anything.
Unobstructed(a) ==
    \A d \in Dirs8 : get_actor(Now, Ahead(pos[a], d, 1)[1], Ahead(pos[a], d, 1)[2]) = None

\* A patrolling Monster stands in the far corner heading (1, 1), with
\* nothing next to it.
InCorner(a) ==
    /\ a \in Range(actors) /\ kind[a] = "Monster"
    /\ pos[a] = <<Width - 1, Height - 1>>
    /\ dir[a] = <<1, 1>>
    /\ Unobstructed(a)

\* C14: a patrolling Monster in the corner (W-1, H-1) heading (1, 1) with no
\* neighbour turns to (-1, -1) on its next activation, stays where it is,
\* and its move returns False; a step that is not an activation only counts.
C14_CornerBounce ==
    \A a \in Ids :
        InCorner(a) =>
        LET w2 == Monster_move(Now, a, a, dir[a][1], dir[a][2])
            w3 == step(Now, a)
        IN  /\ w2.dir[a] = <<-1, -1>> /\ w2.pos = pos /\ w2.ret = "False"
            /\ w2.actors = actors /\ w2.dead = dead
            /\ IF (cnt[a] + 1) % period[a] = 0
               THEN w3 = [w2 EXCEPT !.cnt[a] = 0]
               ELSE w3 = [Now EXCEPT !.cnt[a] = cnt[a] + 1]

\* The Monster's step has just made the corner bounce.
C14_Witness ==
    /\ pc \in {"step", "draw"} /\ stepped # <<>>
    /\ kind[Last(stepped)] = "Monster" /\ Last(stepped) \in Range(actors)
    /\ pos[Last(stepped)] = <<Width - 1, Height - 1>>
    /\ dir[Last(stepped)] = <<-1, -1>>
    /\ Unobstructed(Last(stepped))
    /\ cnt[Last(stepped)] = 0 /\ ret = "False" /\ ~dead

\* ---------------------------------------------------------------- C15
\* The cell a patrolling Monster is heading for, and whether it lies beyond
\* the edge on the x axis, on the y axis.
Target(a) == Ahead(pos[a], dir[a], 1)

OffX(a) == ~is_in_bounds_x(Target(a)[1])

OffY(a) == ~is_in_bounds_y(Target(a)[2])

\* The heading with the components of the axes that ran off the edge negated.
Corrected(a) ==
    <<IF OffX(a) THEN -dir[a][1] ELSE dir[a][1],
      IF OffY(a) THEN -dir[a][2] ELSE dir[a][2]>>

\* A patrolling Monster on the Stage whose step, were it called now, would
\* reach its move, with no entity on the cell it is heading for.
Patrolling(a) ==
    /\ a \in Range(actors) /\ kind[a] = "Monster"
    /\ Activated(Now, a)
    /\ get_actor(Now, Target(a)[1], Target(a)[2]) = None

\* C15 as claimed: a patrolling Monster whose target is off the edge on
\* exactly one axis negates that component and relocates, in the same
\* activation, to the cell along the corrected heading when that cell is
\* free; off the edge on both axes, it reverses without relocating.
C15_BounceKeepsMoving ==
    \A a \in Ids :
        (Patrolling(a) /\ (OffX(a) \/ OffY(a))) =>
        LET w2 == step(Now, a)
            c == Ahead(pos[a], Corrected(a), 1)
        IN  /\ w2.dir[a] = Corrected(a)
            /\ IF OffX(a) /\ OffY(a) THEN w2.pos = pos
               ELSE (is_in_bounds(c[1], c[2]) /\ get_actor(Now, c[1], c[2]) = None)
                       => w2.pos[a] = c

\* C15 amended: a patrolling Monster whose target is off the edge, on one
\* axis or on both, and holds no entity negates the component of each axis
\* that is off the edge, does not relocate in that activation, and its move
\* returns False; it relocates along the corrected heading only on a later
\* activation.
C15_BounceStaysPut ==
    \A a \in Ids :
        (Patrolling(a) /\ (OffX(a) \/ OffY(a))) =>
        LET w2 == step(Now, a)
        IN  /\ w2.dir[a] = Corrected(a)
            /\ w2.pos = pos
            /\ w2.ret = "False"
            /\ w2.actors = actors /\ w2.dead = dead

\* A patrolling Monster's step has just bounced it off the left or right
\* edge only: it is where it was, although the cell along its new heading
\* is free.
C15_Witness ==
    /\ pc \in {"step", "draw"} /\ stepped # <<>>
    /\ kind[Last(stepped)] = "Monster" /\ Last(stepped) \in Range(actors)
    /\ ret = "False" /\ cnt[Last(stepped)] = 0
    /\ LET a == Last(stepped)
           was == <<pos[a][1] - dir[a][1], pos[a][2] + dir[a][2]>>
       IN  /\ ~is_in_bounds_x(was[1]) /\ is_in_bounds_y(was[2])
           /\ is_in_bounds(Target(a)[1], Target(a)[2])
           /\ get_actor(Now, Target(a)[1], Target(a)[2]) = None

\* ---------------------------------------------------------------- C16
\* The cardinal directions.
Dirs4 == {<<1, 0>>, <<-1, 0>>, <<0, 1>>, <<0, -1>>}

\* A StickyBox of the Stage stands on cell c.
StickyAt(c) == \E b \in Range(actors) : isinstance(b, "StickyBox") /\ pos[b] = c

\* C16: is_stuck() of a hostile is true exactly when one of its four
\* cardinal neighbour cells holds a StickyBox and the hostile is not a Boss:
\* a Boss is never stuck, and a StickyBox on a diagonal neighbour alone
\* makes no hostile stuck.
C16_IsStuck ==
    \A a \in Range(monsters) :
        /\ is_stuck(Now, a) <=>
              (kind[a] # "Boss" /\ \E d \in Dirs4 : StickyAt(Ahead(pos[a], d, 1)))
        /\ kind[a] = "Boss" => ~is_stuck(Now, a)
        /\ (\A d \in Dirs4 : ~StickyAt(Ahead(pos[a], d, 1))) => ~is_stuck(Now, a)

\* A hostile's step has just found it stuck and left it alone, throttle
\* counter included: a StickyBox is next to it, on a cardinal cell.
C16_Witness ==
    /\ pc \in {"step", "draw"} /\ stepped # <<>>
    /\ Last(stepped) \in Range(monsters) /\ Last(stepped) \in Range(actors)
    /\ is_stuck(Now, Last(stepped)) /\ ~is_dead(Now, Last(stepped))
    /\ cnt[Last(stepped)] # 0

\* ---------------------------------------------------------------- C17
\* C17: Box.move (a StickyBox's too) returns True exactly when the block's
\* position has changed, the case where the occupant of its target cell made
\* room first included, and returns False exactly when it has not.
C17_BoxMoveReportsOutcome ==
    \A b \in Range(actors) :
        isinstance(b, "Box") =>
        \A other \in Range(actors) \ {b} :
            \A d \in Dirs8 :
                LET w2 == move(Now, b, other, d[1], d[2])
                IN  /\ w2.ret \in {"True", "False"}
                    /\ w2.ret = "True" <=> w2.pos[b] # pos[b]

\* ---------------------------------------------------------------- C18
\* C18: the position of every entity of the Stage is in bounds, from the
\* board setup() builds on and through every tick.
C18_PositionsInBounds ==
    \A a \in Range(actors) : is_in_bounds(pos[a][1], pos[a][2])

\* ---------------------------------------------------------------- C19
\* C19: add_actor of an entity whose cell already holds an entity of the
\* Stage is refused: the live list and the monster list stay as they are.
C19_AddOnOccupiedRefused ==
    \A a \in (1..made) \ Range(actors) :
        get_actor(Now, pos[a][1], pos[a][2]) # None =>
        /\ add_actor(Now, a).actors = actors
        /\ add_actor(Now, a).monsters = monsters

\* ---------------------------------------------------------------- C20
\* The list s without its items equal to a, in the same order.
Without(s, a) == SelectSeq(s, LAMBDA b : b # a)

\* C20: the step in which a hostile that is not a Ripper dies removes that
\* hostile and nothing else: every StickyBox and every other entity stays in
\* the live list, in its place and on its cell.
C20_DeathRemovesOnlyTheDead ==
    \A a \in Range(actors) :
        (isinstance(a, "Monster") /\ kind[a] # "Ripper" /\ is_dead(Now, a)) =>
        LET w2 == step(Now, a)
        IN  /\ w2.actors = Without(actors, a)
            /\ w2.monsters = Without(monsters, a)
            /\ w2.pos = pos
            /\ \A b \in Range(actors) :
                  isinstance(b, "StickyBox") => b \in Range(w2.actors)

\* A hostile that is not a Ripper has just died in its step, with a
\* StickyBox on the Stage.
C20_Witness ==
    /\ \E a \in 1..made :
          /\ kind[a] \in MonsterKinds \ {"Ripper"}
          /\ DiedInStep(a)
          /\ Without(tick0, a) = actors
    /\ \E b \in Range(actors) : isinstance(b, "StickyBox")

\* ---------------------------------------------------------------- C21
\* C21: a hostile that is neither stuck nor dead attempts a move on exactly
\* every period-th of its step calls: whatever random.choice returns, one
\* step call advances its throttle counter by exactly one, modulo its
\* period, a call whose sampled direction is blocked or out of bounds
\* included.
C21_ThrottleRegular ==
    (pc \in {"events", "step"} /\ idx < Len(actors)) =>
    LET a == actors[idx + 1]
    IN  (isinstance(a, "Monster") /\ ~is_dead(Now, a) /\ ~is_stuck(Now, a)) =>
        \A w2 \in Outcomes(a) : w2.cnt[a] = (cnt[a] + 1) % period[a]

\* ---------------------------------------------------------------- C22
\* The Stage without its StickyBoxes.
Unstuck(w) ==
    [w EXCEPT !.actors = SelectSeq(w.actors, LAMBDA b : ~isinstance(b, "StickyBox"))]

\* C22: a step call on a hostile that is stuck and not dead changes
\* nothing: no position, direction or throttle counter, not the player's
\* dead flag, not the two lists.  Nothing is remembered of it: were the
\* StickyBoxes gone at the next call, that call would count or remove the
\* hostile as for any other.
C22_HeldStepChangesNothing ==
    \A a \in Range(actors) :
        (isinstance(a, "Monster") /\ is_stuck(Now, a) /\ ~is_dead(Now, a)) =>
        /\ step(Now, a) = Now
        /\ ~is_stuck(Unstuck(step(Now, a)), a)
        /\ IF is_dead(Unstuck(Now), a)
           THEN a \notin Range(step(Unstuck(step(Now, a)), a).actors)
           ELSE step(Unstuck(step(Now, a)), a).cnt[a] = (cnt[a] + 1) % period[a]

\* A wandering hostile that had left its starting corner has just been
\* stepped while held by a StickyBox: its throttle counter is as the step
\* before left it.
C22_Witness ==
    /\ pc \in {"step", "draw"} /\ stepped # <<>>
    /\ LET a == Last(stepped)
       IN  /\ a \in Range(actors)
           /\ kind[a] \in {"FreeMonster", "BoxMonster", "Ripper"}
           /\ is_stuck(Now, a) /\ ~is_dead(Now, a)
           /\ cnt[a] # 0
           /\ pos[a] # <<Width - 1, Height - 1>>

\* ---------------------------------------------------------------- C23
\* C23: when the step of a patrolling Monster reaches its move and the
\* target cell is in bounds and holds an entity other than the player, the
\* Monster negates both components of its direction and no position
\* changes: the occupant is not pushed, the Monster does not relocate.
C23_PatrolBouncesOffOccupant ==
    \A a \in Range(actors) :
        (kind[a] = "Monster" /\ Activated(Now, a)) =>
        LET occ == get_actor(Now, Target(a)[1], Target(a)[2])
            w2 == step(Now, a)
        IN  ( /\ is_in_bounds(Target(a)[1], Target(a)[2])
              /\ occ # None /\ ~isinstance(occ, "KeyboardPlayer") ) =>
            /\ w2.dir[a] = <<-dir[a][1], -dir[a][2]>>
            /\ w2.pos = pos
            /\ w2.actors = actors /\ w2.monsters = monsters
            /\ w2.dead = dead

\* A patrolling Monster has just turned round in front of a Box or a
\* StickyBox, which is where it was: on the cell the Monster was heading for.
C23_Witness ==
    /\ pc \in {"step", "draw"} /\ stepped # <<>>
    /\ LET a == Last(stepped)
           c == Ahead(pos[a], dir[a], -1)
       IN  /\ kind[a] = "Monster" /\ a \in Range(actors)
           /\ ret = "True" /\ ~dead /\ cnt[a] = 0
           /\ is_in_bounds(pos[a][1], pos[a][2])
           /\ is_in_bounds(c[1], c[2])
           /\ isinstance(get_actor(Now, c[1], c[2]), "Box")

\* ---------------------------------------------------------------- C24
\* C24: death takes precedence over immobilization: the step of a hostile
\* for which both is_dead() and is_stuck() hold removes it from the live
\* collection and from the monster list; it is not held in place.
C24_DeathBeforeStuck ==
    \A a \in Range(actors) :
        (isinstance(a, "Monster") /\ is_dead(Now, a) /\ is_stuck(Now, a)) =>
        /\ a \notin Range(step(Now, a).actors)
        /\ a \notin Range(step(Now, a).monsters)

\* A Monster or FreeMonster has just died in its step with a StickyBox on a
\* cardinal neighbour of the cell it stood on.
C24_Witness ==
    \E a \in 1..made :
        /\ DiedInStep(a) /\ a \notin Range(monsters)
        /\ kind[a] \in {"Monster", "FreeMonster"}
        /\ \E d \in Dirs4 : StickyAt(Ahead(pos[a], d, 1))

\* ---------------------------------------------------------------- C25
\* C25: defeat is permanent within a game: once the player's dead flag is
\* set, no key event, step of any actor (move, push, death of a hostile) or
\* draw clears it.
C25_DefeatPermanent == [][dead => dead']_vars

\* After the game-over draw left the player alone on the Stage, a later tick
\* ran its step and the player moved to another cell, still dead.
C25_Witness ==
    /\ dead /\ tick0 = <<Player>>
    /\ pc = "draw" /\ stepped = <<Player>>
    /\ ret = "True"

\* ---------------------------------------------------------------- C26
\* The components of a direction or of a displacement that are diagonal.
Diagonal(d) == d[1] \in {-1, 1} /\ d[2] \in {-1, 1}

\* C26: a patrolling Monster's direction is diagonal in every reachable
\* state: both components are 1 or -1, never 0; and whenever a Monster's
\* position changes, its x and its y each change by exactly one.
C26_PatrolDiagonal ==
    /\ [](\A a \in 1..made : kind[a] = "Monster" => Diagonal(dir[a]))
    /\ [][\A a \in 1..made :
            (kind[a] = "Monster" /\ pos'[a] # pos[a]) =>
            Diagonal(<<pos'[a][1] - pos[a][1], pos'[a][2] - pos[a][2]>>)]_vars

\* A patrolling Monster has just relocated: the cell behind it, where it
\* stood, is free, no StickyBox holds it, and it has turned at least once
\* since it was constructed heading (1, 1).
C26_Witness ==
    /\ pc \in {"step", "draw"} /\ stepped # <<>>
    /\ LET a == Last(stepped)
           c == Ahead(pos[a], dir[a], -1)
       IN  /\ kind[a] = "Monster" /\ a \in Range(actors)
           /\ ret = "True" /\ ~dead /\ cnt[a] = 0
           /\ is_in_bounds(c[1], c[2])
           /\ get_actor(Now, c[1], c[2]) = None
           /\ ~is_stuck(Now, a)
           /\ dir[a] # <<1, 1>>

====
